---------------------------- MODULE Spec2Model ----------------------------
(***************************************************************************)
(* A model of drivers/hwmon/sht15.c, the host-side driver of the SHT1x/7x  *)
(* humidity and temperature sensor: the command protocol with its two      *)
(* caches, the checksum recovery, the interrupt / work-queue completion    *)
(* path of a measurement, and the concurrent sysfs callers.                *)
(*                                                                         *)
(* Time is kept as ages: status_age is jiffies - data->last_status and     *)
(* measurement_age is jiffies - data->last_measurement, both saturating    *)
(* one past the staleness window, and waited is the number of jiffies the  *)
(* caller has spent in wait_event_timeout.  The jiffies counter is assumed *)
(* not to wrap inside one window.                                          *)
(***************************************************************************)
EXTENDS Integers, Sequences, FiniteSets, TLC

(***************************************************************************)
(* Program constants                                                       *)
(***************************************************************************)
SHT15_MEASURE_TEMP == 3
SHT15_MEASURE_RH == 5
SHT15_WRITE_STATUS == 6
SHT15_READ_STATUS == 7
SHT15_SOFT_RESET == 30

SHT15_STATUS_LOW_RESOLUTION == 1
SHT15_STATUS_NO_OTP_RELOAD == 2
SHT15_STATUS_HEATER == 4
SHT15_STATUS_LOW_BATTERY == 64

\* the mask of previous_config = data->val_status & 0x07
CONFIG_MASK == 7
\* the mask of the CRC seed, data->val_status & 0x0F
SEED_MASK == 15

\* timeout_msecs of the two sht15_measurement calls
TIMEOUT_RH_MSECS == 160
TIMEOUT_TEMP_MSECS == 400

\* enum sht15_state
SHT15_READING_NOTHING == "NOTHING"
SHT15_READING_TEMP == "TEMP"
SHT15_READING_HUMID == "HUMID"

(***************************************************************************)
(* Bounds of the model.  With the values below TLC explores 383,401        *)
(* states of Spec and 226,508 of LifeSpec.  MaxIrqDepth is the highest     *)
(* depth MaxCalls calls can reach (DepthBoundNeverBinds), so that it       *)
(* never stops a step of the driver.                                       *)
(***************************************************************************)
\* jiffies per second; the staleness window of both caches is HZ jiffies
HZ == 2
\* the number of sysfs calls made in one behaviour
MaxCalls == 2
\* the disable depth of the data line's interrupt is followed up to here
MaxIrqDepth == 4

Callers == {1, 2}
\* the raw 16 bit codes the device measures
RawHumid == 1200
RawTemp == 800
\* the status bytes the device returns for a read-status command
StatusBytes == {0, 65}
\* the status the platform data asks for at probe time
PdataStatus == {0, 1}

(***************************************************************************)
(* Bit arithmetic on bytes                                                 *)
(***************************************************************************)
Bit(byte, i) == (byte \div (2 ^ i)) % 2

RECURSIVE BitAndUpTo(_, _, _)
BitAndUpTo(a, b, i) ==
    IF i < 0 THEN 0
    ELSE (Bit(a, i) * Bit(b, i)) * (2 ^ i) + BitAndUpTo(a, b, i - 1)

BitAnd(a, b) == BitAndUpTo(a, b, 7)

RECURSIVE BitXorUpTo(_, _, _)
BitXorUpTo(a, b, i) ==
    IF i < 0 THEN 0
    ELSE ((Bit(a, i) + Bit(b, i)) % 2) * (2 ^ i) + BitXorUpTo(a, b, i - 1)

BitXor(a, b) == BitXorUpTo(a, b, 7)

BitOr(a, b) == a + b - BitAnd(a, b)

\* a & ~b on bytes
BitClear(a, b) == a - BitAnd(a, b)

(***************************************************************************)
(* sht15_reverse(): c |= (!!(byte & (1 << i))) << (7 - i), for i in 0..7   *)
(***************************************************************************)
RECURSIVE ReverseFrom(_, _)
ReverseFrom(byte, i) ==
    IF i > 7 THEN 0
    ELSE Bit(byte, i) * (2 ^ (7 - i)) + ReverseFrom(byte, i + 1)

sht15_reverse(byte) == ReverseFrom(byte, 0)

(***************************************************************************)
(* sht15_crc8_table, indexed from 1 here                                   *)
(***************************************************************************)
sht15_crc8_table ==
    << 0,   49,  98,  83,  196, 245, 166, 151,
       185, 136, 219, 234, 125, 76,  31,  46,
       67,  114, 33,  16,  135, 182, 229, 212,
       250, 203, 152, 169, 62,  15,  92,  109,
       134, 183, 228, 213, 66,  115, 32,  17,
       63,  14,  93,  108, 251, 202, 153, 168,
       197, 244, 167, 150, 1,   48,  99,  82,
       124, 77,  30,  47,  184, 137, 218, 235,
       61,  12,  95,  110, 249, 200, 155, 170,
       132, 181, 230, 215, 64,  113, 34,  19,
       126, 79,  28,  45,  186, 139, 216, 233,
       199, 246, 165, 148, 3,   50,  97,  80,
       187, 138, 217, 232, 127, 78,  29,  44,
       2,   51,  96,  81,  198, 247, 164, 149,
       248, 201, 154, 171, 60,  13,  94,  111,
       65,  112, 35,  18,  133, 180, 231, 214,
       122, 75,  24,  41,  190, 143, 220, 237,
       195, 242, 161, 144, 7,   54,  101, 84,
       57,  8,   91,  106, 253, 204, 159, 174,
       128, 177, 226, 211, 68,  117, 38,  23,
       252, 205, 158, 175, 56,  9,   90,  107,
       69,  116, 39,  22,  129, 176, 227, 210,
       191, 142, 221, 236, 123, 74,  25,  40,
       6,   55,  100, 85,  194, 243, 160, 145,
       71,  118, 37,  20,  131, 178, 225, 208,
       254, 207, 156, 173, 58,  11,  88,  105,
       4,   53,  102, 87,  192, 241, 162, 147,
       189, 140, 223, 238, 121, 72,  27,  42,
       193, 240, 163, 146, 5,   52,  103, 86,
       120, 73,  26,  43,  188, 141, 222, 239,
       130, 179, 224, 209, 70,  119, 36,  21,
       59,  10,  89,  104, 255, 206, 157, 172 >>

(***************************************************************************)
(* sht15_crc8(): the table folded over the bytes, from the reversed low    *)
(* nibble of the status mirror                                             *)
(***************************************************************************)
RECURSIVE Crc8Fold(_, _)
Crc8Fold(crc, value) ==
    IF value = << >> THEN crc
    ELSE Crc8Fold(sht15_crc8_table[BitXor(Head(value), crc) + 1], Tail(value))

sht15_crc8(status, value) ==
    Crc8Fold(sht15_reverse(BitAnd(status, SEED_MASK)), value)

\* msecs_to_jiffies(), which rounds up
msecs_to_jiffies(m) == (m * HZ + 999) \div 1000


(***************************************************************************)
(* State                                                                   *)
(***************************************************************************)
VARIABLES
    \* struct sht15_data
    val_temp,            \* last raw temperature read from the device
    val_humid,           \* last raw humidity read from the device
    val_status,          \* the status register mirror
    checksum_ok,         \* the last value read passed the CRC validation
    checksumming,        \* CRC validation is enabled (platform data)
    state,               \* enum sht15_state
    measurements_valid,
    status_valid,
    measurement_age,     \* jiffies - last_measurement, saturating at HZ + 1
    status_age,          \* jiffies - last_status, saturating at HZ + 1
    read_lock,           \* the caller holding the mutex, 0 when it is free
    interrupt_handled,   \* atomic flag: a handler has been scheduled
    \* read_work on the system work queue
    work_pending,        \* the work is queued
    work_pc,             \* where sht15_bh_read_data is
    \* the interrupt of the data line
    irq_depth,           \* disable depth: the interrupt is delivered at 0
    irq_pending,         \* a falling edge is latched
    \* the data line and the device behind it
    gpio_data,           \* the level gpio_get_value reads
    dev_state,           \* "idle", "measuring" or "ready"
    dev_val,             \* the result the device holds when ready
    \* the sysfs callers
    pc,                  \* where each caller is
    op,                  \* the attribute each caller accesses
    ret,                 \* ret of the caller holding the mutex
    command,             \* command of the sht15_measurement in progress
    previous_config,     \* previous_config of the recovery in progress
    waited,              \* jiffies spent in wait_event_timeout
    \* history of the call holding the mutex
    log,                 \* what it has put on the bus
    stale,               \* its cache was stale or invalid on entry
    calls,               \* sysfs calls made so far
    humid_bad,           \* val_humid comes from an exchange that failed the CRC
    temp_bad,            \* val_temp comes from an exchange that failed the CRC
    \* the platform device: sht15_probe and sht15_remove
    life,                \* "unbound", "bound", "probe_failed", "removed",
                         \* "remove_failed", or "none" outside the driver
    life_ret,            \* what sht15_probe or sht15_remove returned
    acquired,            \* how often each resource has been acquired
    released,            \* how often each resource has been released
    supply_uV,           \* local copy of the supply voltage
    supply_uV_valid,     \* the flag the notifier clears
    valid_writer,        \* the routine that wrote supply_uV_valid last
    regulator_uV,        \* what regulator_get_voltage returns at present
    supply_work_pending, \* update_supply_work is queued
    \* one evaluation of a function of the driver on drawn inputs
    pure_pc,             \* the function to apply, "done" once applied
    checksum_vals,       \* the message the CRC is computed over
    dev_checksum,        \* the checksum byte as it is read from the device
    calc                 \* the value the function returned

cacheVars == <<val_temp, val_humid, val_status, checksum_ok,
               measurements_valid, status_valid, measurement_age, status_age>>
workVars == <<work_pending, work_pc>>
irqVars == <<irq_depth, irq_pending, interrupt_handled>>
devVars == <<gpio_data, dev_state, dev_val>>
callVars == <<pc, op, ret, command, previous_config, waited, read_lock>>
histVars == <<log, stale, calls, humid_bad, temp_bad>>

lifeVars == <<life, life_ret, acquired, released, supply_uV,
              supply_uV_valid, valid_writer, regulator_uV,
              supply_work_pending>>
pureVars == <<pure_pc, checksum_vals, dev_checksum, calc>>
driverVars == <<cacheVars, checksumming, state, workVars, irqVars, devVars,
                callVars, histVars>>

vars == <<cacheVars, checksumming, state, workVars, irqVars, devVars,
          callVars, histVars, lifeVars, pureVars>>

(***************************************************************************)
(* What a call puts on the bus, as the log records it                      *)
(***************************************************************************)
EvCmd(cmd) == <<"cmd", cmd>>
EvByte(byte) == <<"byte", byte>>
EvNak == <<"nak", 0>>
EvConnectionReset == <<"connection_reset", 0>>

\* a connection reset that does nothing; C18 must notice
NoConnectionReset == << >>

\* sht15_connection_reset(): data driven high, nine clock pulses
sht15_connection_reset == << EvConnectionReset >>

\* sht15_wait_for_response() without the connection reset; C9 must notice
NakWithoutReset(acked) ==
    IF acked
    THEN [ret |-> "OK", ev |-> << >>]
    ELSE [ret |-> "EIO", ev |-> << EvNak >>]

\* sht15_wait_for_response(): a high data line is a NAK; the connection is
\* reset and -EIO returned
sht15_wait_for_response(acked) ==
    IF acked
    THEN [ret |-> "OK", ev |-> << >>]
    ELSE [ret |-> "EIO", ev |-> << EvNak >> \o sht15_connection_reset]

\* sht15_send_cmd(): transmission start, the command byte, the response
sht15_send_cmd(cmd, acked) ==
    LET r == sht15_wait_for_response(acked)
    IN  [ret |-> r.ret, ev |-> << EvCmd(cmd) >> \o r.ev]

\* sht15_soft_reset() that forgets the mirror; C11 must notice
SoftResetKeepsMirror(acked) ==
    LET r == sht15_send_cmd(SHT15_SOFT_RESET, acked)
    IN  [ret |-> r.ret, ev |-> r.ev, mirror |-> val_status]

\* sht15_soft_reset(): the soft reset command; once it is acknowledged the
\* device is given SHT15_TSRST to reset and the mirror is zeroed
sht15_soft_reset(acked) ==
    LET r == sht15_send_cmd(SHT15_SOFT_RESET, acked)
    IN  [ret |-> r.ret, ev |-> r.ev,
         mirror |-> IF r.ret = "OK" THEN 0 ELSE val_status]

\* sht15_send_status() writing the mirror as soon as the command has been
\* acknowledged, whatever becomes of the status byte; C10 must notice
SendStatusEagerMirror(status, ack_cmd, ack_byte) ==
    LET c == sht15_send_cmd(SHT15_WRITE_STATUS, ack_cmd)
        b == sht15_wait_for_response(ack_byte)
    IN  IF c.ret # "OK"
        THEN [ret |-> c.ret, ev |-> c.ev, mirror |-> val_status]
        ELSE [ret |-> b.ret, ev |-> c.ev \o << EvByte(status) >> \o b.ev,
              mirror |-> status]

\* sht15_send_status() that reports success whatever the device answers; C19
\* must notice
SendStatusSwallowsNak(status, ack_cmd, ack_byte) ==
    LET c == sht15_send_cmd(SHT15_WRITE_STATUS, ack_cmd)
        b == sht15_wait_for_response(ack_byte)
    IN  IF c.ret # "OK"
        THEN [ret |-> "OK", ev |-> c.ev, mirror |-> val_status]
        ELSE IF b.ret # "OK"
        THEN [ret |-> "OK", ev |-> c.ev \o << EvByte(status) >> \o b.ev,
              mirror |-> val_status]
        ELSE [ret |-> "OK", ev |-> c.ev \o << EvByte(status) >>,
              mirror |-> status]

\* sht15_send_status(): the write-status command, then the status byte; the
\* mirror is written when both are acknowledged
sht15_send_status(status, ack_cmd, ack_byte) ==
    LET c == sht15_send_cmd(SHT15_WRITE_STATUS, ack_cmd)
        b == sht15_wait_for_response(ack_byte)
    IN  IF c.ret # "OK"
        THEN [ret |-> c.ret, ev |-> c.ev, mirror |-> val_status]
        ELSE IF b.ret # "OK"
        THEN [ret |-> b.ret, ev |-> c.ev \o << EvByte(status) >> \o b.ev,
              mirror |-> val_status]
        ELSE [ret |-> "OK", ev |-> c.ev \o << EvByte(status) >>,
              mirror |-> status]

\* a staleness test that forgets the window; C2 must notice
StaleWithoutWindow == ~status_valid

\* time_after(jiffies, data->last_status + timeout) || !data->status_valid
StatusStale == status_age > HZ \/ ~status_valid

\* time_after(jiffies, data->last_measurement + timeout)
\*     || !data->measurements_valid
MeasurementsStale == measurement_age > HZ \/ ~measurements_valid

\* a recovery that restores the resolution and OTP-reload bits only; C12
\* must notice
PreviousConfigNoHeater(status) ==
    BitAnd(status, SHT15_STATUS_LOW_RESOLUTION + SHT15_STATUS_NO_OTP_RELOAD)

\* a recovery that keeps the whole mirror as the configuration to restore;
\* C3 must notice
PreviousConfigUnmasked(status) == status

\* previous_config = data->val_status & 0x07
PreviousConfig(status) == BitAnd(status, CONFIG_MASK)

\* a driver that never looks at the checksum; C7 must notice
ChecksumIgnored(ok) == FALSE

\* data->checksumming && !data->checksum_ok
ChecksumFailed(ok) == checksumming /\ ~ok

\* the checksum bytes the device may send for a crc: the right one, which is
\* the crc bit-reversed, and a corrupted one
DevChecksums(crc) == {sht15_reverse(crc), sht15_reverse(BitXor(crc, 255))}

\* a validation that compares the byte as the device sent it
ChecksumOkUnreversed(status, vals, dev_byte) ==
    sht15_crc8(status, vals) = dev_byte

\* data->checksum_ok = (sht15_crc8(data, checksum_vals, len) == dev_checksum),
\* with dev_checksum = sht15_reverse(sht15_read_byte(data))
ChecksumOk(status, vals, dev_byte) ==
    sht15_crc8(status, vals) = sht15_reverse(dev_byte)

\* wait_event_timeout's timeout of the measurement in progress
TimeoutJiffies(cmd) ==
    IF cmd = SHT15_MEASURE_RH
    THEN msecs_to_jiffies(TIMEOUT_RH_MSECS)
    ELSE msecs_to_jiffies(TIMEOUT_TEMP_MSECS)

\* enable_irq(): one level of disable less; at depth 0 the call is unbalanced
\* and changes nothing
enable_irq(depth) == IF depth > 0 THEN depth - 1 ELSE 0

\* disable_irq_nosync(): one level of disable more
disable_irq_nosync(depth) == depth + 1

\* the falling edges the host itself drives on the data line while it sends a
\* command may or may not be latched by the interrupt controller
HostEdges == {irq_pending, TRUE}

(***************************************************************************)
(* Init: the session as sht15_probe leaves it.  kzalloc zeroes the caches, *)
(* the interrupt has been requested and disabled once, the soft reset and  *)
(* the write-status of the platform options have been acknowledged.        *)
(***************************************************************************)
\* what sht15_probe acquires and sht15_remove gives back: the struct
\* (kzalloc), the regulator (regulator_get), its enable count, the notifier
\* block, the two lines, the interrupt, the attribute group, the hwmon device
Resources ==
    {"data", "reg", "regulator_enable", "nb", "gpio_sck", "gpio_data", "irq",
     "sht15_attr_group", "hwmon_dev"}

\* pdata->supply_mv of the platform data
PdataSupply == {3300}

\* what regulator_get_voltage can return; 0 when the regulator cannot tell
RegulatorVoltage == {0, 3300000}

\* the driver bound to its device by a sht15_probe that found a regulator
Bound ==
    /\ life = "bound"
    /\ life_ret = "OK"
    /\ acquired = [r \in Resources |-> 1]
    /\ released = [r \in Resources |-> 0]
    /\ supply_uV \in {v \in RegulatorVoltage : v # 0}
    /\ supply_uV_valid = FALSE
    /\ valid_writer = "kzalloc"
    /\ regulator_uV = supply_uV
    /\ supply_work_pending = FALSE

\* no function under evaluation
NoEvaluation ==
    /\ pure_pc = "none"
    /\ checksum_vals = << >>
    /\ dev_checksum = 0
    /\ calc = 0

\* the struct with no value read, no call and no work in progress, and what
\* surrounds it at rest
StructInit ==
    /\ checksum_ok = FALSE
    /\ state = SHT15_READING_NOTHING
    /\ measurements_valid = FALSE
    /\ status_valid = FALSE
    /\ measurement_age = HZ + 1
    /\ status_age = HZ + 1
    /\ read_lock = 0
    /\ interrupt_handled = 0
    /\ work_pending = FALSE
    /\ work_pc = "idle"
    /\ irq_depth = 1
    /\ irq_pending = FALSE
    /\ gpio_data = 1
    /\ dev_state = "idle"
    /\ dev_val = 0
    /\ pc = [c \in Callers |-> "idle"]
    /\ op = [c \in Callers |-> "none"]
    /\ ret = "OK"
    /\ command = 0
    /\ previous_config = 0
    /\ waited = 0
    /\ log = << >>
    /\ stale = FALSE
    /\ calls = 0
    /\ humid_bad = FALSE
    /\ temp_bad = FALSE

\* the struct as sht15_probe leaves it: the options of the platform data
DriverInit ==
    /\ StructInit
    /\ val_temp = 0
    /\ val_humid = 0
    /\ val_status \in PdataStatus
    /\ checksumming \in BOOLEAN

Init ==
    /\ DriverInit
    /\ Bound
    /\ NoEvaluation

(***************************************************************************)
(* The sysfs callers.  A call begins when it gets the mutex.               *)
(***************************************************************************)
\* sht15_show_status() calls sht15_update_status(): mutex_lock and the
\* staleness test
sht15_update_status(c) ==
    /\ pc[c] = "idle"
    /\ calls < MaxCalls
    /\ read_lock = 0
    /\ read_lock' = c
    /\ calls' = calls + 1
    /\ op' = [op EXCEPT ![c] = "status"]
    /\ stale' = StatusStale
    /\ pc' = [pc EXCEPT ![c] = IF StatusStale THEN "us_cmd" ELSE "unlock"]
    /\ UNCHANGED <<cacheVars, checksumming, state, workVars, irqVars, devVars,
                   ret, command, previous_config, waited, log, humid_bad,
                   temp_bad>>
    /\ UNCHANGED <<lifeVars, pureVars>>

\* sht15_update_status(): the read-status command.  Once it is acknowledged
\* the device puts the top bit of the status register, which reads 0, on the
\* data line.
UpdateStatusCmd(c) ==
    /\ pc[c] = "us_cmd"
    /\ \E acked \in BOOLEAN :
         LET r == sht15_send_cmd(SHT15_READ_STATUS, acked)
         IN  /\ log' = log \o r.ev
             /\ ret' = r.ret
             /\ pc' = [pc EXCEPT ![c] = IF r.ret = "OK" THEN "us_read"
                                        ELSE "unlock"]
             /\ gpio_data' = IF r.ret = "OK" THEN 0 ELSE 1
    /\ UNCHANGED <<cacheVars, checksumming, state, workVars, irqVars,
                   dev_state, dev_val, op, command, previous_config, waited,
                   read_lock, stale, calls, humid_bad, temp_bad>>
    /\ UNCHANGED <<lifeVars, pureVars>>

\* sht15_update_status(): the status byte and, with checksumming, its
\* checksum are read; the mirror is refreshed unless the checksum fails
UpdateStatusRead(c) ==
    /\ pc[c] = "us_read"
    /\ \E status \in StatusBytes :
       \E dev_byte \in DevChecksums(sht15_crc8(val_status,
                                       <<SHT15_READ_STATUS, status>>)) :
         LET ok == IF checksumming
                   THEN ChecksumOk(val_status,
                                   <<SHT15_READ_STATUS, status>>, dev_byte)
                   ELSE checksum_ok
         IN  /\ checksum_ok' = ok
             /\ IF ChecksumFailed(ok)
                THEN /\ previous_config' = PreviousConfig(val_status)
                     /\ pc' = [pc EXCEPT ![c] = "rec_reset"]
                     /\ UNCHANGED <<val_status, status_valid, status_age>>
                ELSE /\ val_status' = status
                     /\ status_valid' = TRUE
                     /\ status_age' = 0
                     /\ pc' = [pc EXCEPT ![c] = "unlock"]
                     /\ UNCHANGED previous_config
    /\ gpio_data' = 1
    /\ UNCHANGED <<val_temp, val_humid, measurements_valid, measurement_age,
                   checksumming, state, workVars, irqVars, dev_state, dev_val,
                   op, ret, command, waited, read_lock, histVars>>
    /\ UNCHANGED <<lifeVars, pureVars>>

\* sht15_soft_reset() of a checksum recovery, in sht15_update_status and in
\* sht15_measurement alike
RecoverySoftReset(c) ==
    /\ pc[c] = "rec_reset"
    /\ \E acked \in BOOLEAN :
         LET r == sht15_soft_reset(acked)
         IN  /\ log' = log \o r.ev
             /\ val_status' = r.mirror
             /\ IF r.ret = "OK"
                THEN /\ dev_state' = "idle"
                     /\ IF previous_config # 0
                        THEN /\ pc' = [pc EXCEPT ![c] = "rec_status"]
                             /\ UNCHANGED ret
                        ELSE /\ pc' = [pc EXCEPT ![c] = "unlock"]
                             /\ ret' = "EAGAIN"
                ELSE /\ ret' = r.ret
                     /\ pc' = [pc EXCEPT ![c] = "unlock"]
                     /\ UNCHANGED dev_state
    /\ gpio_data' = 1
    /\ UNCHANGED <<val_temp, val_humid, checksum_ok, measurements_valid,
                   status_valid, measurement_age, status_age, checksumming,
                   state, workVars, irqVars, dev_val, op, command,
                   previous_config, waited, read_lock, stale, calls,
                   humid_bad, temp_bad>>
    /\ UNCHANGED <<lifeVars, pureVars>>

\* sht15_send_status(data, previous_config) of a checksum recovery
RecoverySendStatus(c) ==
    /\ pc[c] = "rec_status"
    /\ \E ack_cmd \in BOOLEAN, ack_byte \in BOOLEAN :
         LET r == sht15_send_status(previous_config, ack_cmd, ack_byte)
         IN  /\ log' = log \o r.ev
             /\ val_status' = r.mirror
             /\ ret' = IF r.ret = "OK" THEN "EAGAIN" ELSE r.ret
    /\ pc' = [pc EXCEPT ![c] = "unlock"]
    /\ gpio_data' = 1
    /\ UNCHANGED <<val_temp, val_humid, checksum_ok, measurements_valid,
                   status_valid, measurement_age, status_age, checksumming,
                   state, workVars, irqVars, dev_state, dev_val, op, command,
                   previous_config, waited, read_lock, stale, calls,
                   humid_bad, temp_bad>>
    /\ UNCHANGED <<lifeVars, pureVars>>

\* the status byte sht15_store_heater writes
HeaterStatus(status, value) ==
    IF value
    THEN BitOr(BitAnd(status, CONFIG_MASK), SHT15_STATUS_HEATER)
    ELSE BitClear(BitAnd(status, CONFIG_MASK), SHT15_STATUS_HEATER)

\* sht15_store_heater(): mutex_lock, the new status byte, sht15_send_status
sht15_store_heater(c) ==
    /\ pc[c] = "idle"
    /\ calls < MaxCalls
    /\ read_lock = 0
    /\ read_lock' = c
    /\ calls' = calls + 1
    /\ op' = [op EXCEPT ![c] = "heater"]
    /\ \E value \in BOOLEAN, ack_cmd \in BOOLEAN, ack_byte \in BOOLEAN :
         LET r == sht15_send_status(HeaterStatus(val_status, value),
                                    ack_cmd, ack_byte)
         IN  /\ log' = r.ev
             /\ val_status' = r.mirror
             /\ ret' = r.ret
    /\ pc' = [pc EXCEPT ![c] = "unlock"]
    /\ gpio_data' = 1
    /\ UNCHANGED <<val_temp, val_humid, checksum_ok, measurements_valid,
                   status_valid, measurement_age, status_age, checksumming,
                   state, workVars, irqVars, dev_state, dev_val, command,
                   previous_config, waited, stale, humid_bad, temp_bad>>
    /\ UNCHANGED <<lifeVars, pureVars>>

\* sht15_show_temp() and sht15_show_humidity() call
\* sht15_update_measurements(): mutex_lock and the staleness test; a stale
\* cache sets the state and starts the humidity measurement
sht15_update_measurements(c) ==
    /\ pc[c] = "idle"
    /\ calls < MaxCalls
    /\ read_lock = 0
    /\ read_lock' = c
    /\ calls' = calls + 1
    /\ op' = [op EXCEPT ![c] = "meas"]
    /\ stale' = MeasurementsStale
    /\ IF MeasurementsStale
       THEN /\ state' = SHT15_READING_HUMID
            /\ command' = SHT15_MEASURE_RH
            /\ pc' = [pc EXCEPT ![c] = "m_cmd"]
       ELSE /\ pc' = [pc EXCEPT ![c] = "unlock"]
            /\ UNCHANGED <<state, command>>
    /\ UNCHANGED <<cacheVars, checksumming, workVars, irqVars, devVars, ret,
                   previous_config, waited, log, humid_bad, temp_bad>>
    /\ UNCHANGED <<lifeVars, pureVars>>

\* sht15_measurement(): the measurement command; once it is acknowledged the
\* device releases the data line and measures
MeasurementCmd(c) ==
    /\ pc[c] = "m_cmd"
    /\ \E acked \in BOOLEAN :
         LET r == sht15_send_cmd(command, acked)
         IN  /\ log' = log \o r.ev
             /\ ret' = r.ret
             /\ pc' = [pc EXCEPT ![c] = IF r.ret = "OK" THEN "m_arm"
                                        ELSE "unlock"]
             /\ dev_state' = IF r.ret = "OK" THEN "measuring" ELSE dev_state
    /\ gpio_data' = 1
    /\ dev_val' = 0
    /\ irq_pending' \in HostEdges
    /\ UNCHANGED <<cacheVars, checksumming, state, workVars, irq_depth,
                   interrupt_handled, op, command, previous_config, waited,
                   read_lock, stale, calls, humid_bad, temp_bad>>
    /\ UNCHANGED <<lifeVars, pureVars>>

\* sht15_measurement(): atomic_set(&data->interrupt_handled, 0); enable_irq
MeasurementArm(c) ==
    /\ pc[c] = "m_arm"
    /\ interrupt_handled' = 0
    /\ irq_depth' = enable_irq(irq_depth)
    /\ pc' = [pc EXCEPT ![c] = "m_check"]
    /\ UNCHANGED <<cacheVars, checksumming, state, workVars, irq_pending,
                   devVars, op, ret, command, previous_config, waited,
                   read_lock, histVars>>
    /\ UNCHANGED <<lifeVars, pureVars>>

\* sht15_measurement(): the line is looked at again; when it is low already
\* the interrupt is disabled
MeasurementCheck(c) ==
    /\ pc[c] = "m_check"
    /\ IF gpio_data = 0
       THEN /\ irq_depth < MaxIrqDepth
            /\ irq_depth' = disable_irq_nosync(irq_depth)
            /\ pc' = [pc EXCEPT ![c] = "m_sched"]
       ELSE /\ pc' = [pc EXCEPT ![c] = "m_wait"]
            /\ UNCHANGED irq_depth
    /\ UNCHANGED <<cacheVars, checksumming, state, workVars, irq_pending,
                   interrupt_handled, devVars, op, ret, command,
                   previous_config, waited, read_lock, histVars>>
    /\ UNCHANGED <<lifeVars, pureVars>>

\* sht15_measurement(): the work is scheduled unless the interrupt has occurred
MeasurementSchedule(c) ==
    /\ pc[c] = "m_sched"
    /\ work_pending' = (work_pending \/ interrupt_handled = 0)
    /\ pc' = [pc EXCEPT ![c] = "m_wait"]
    /\ UNCHANGED <<cacheVars, checksumming, state, work_pc, irqVars, devVars,
                   op, ret, command, previous_config, waited, read_lock,
                   histVars>>
    /\ UNCHANGED <<lifeVars, pureVars>>

\* sht15_measurement(): wait_event_timeout returns with the state back at
\* SHT15_READING_NOTHING; the checksum is looked at, and
\* sht15_update_measurements goes on with the temperature or ends
MeasurementWake(c) ==
    /\ pc[c] = "m_wait"
    /\ state = SHT15_READING_NOTHING
    /\ waited' = 0
    /\ IF ChecksumFailed(checksum_ok)
       THEN /\ previous_config' = PreviousConfig(val_status)
            /\ pc' = [pc EXCEPT ![c] = "rec_reset"]
            /\ UNCHANGED <<state, command, measurements_valid,
                           measurement_age>>
       ELSE IF command = SHT15_MEASURE_RH
       THEN /\ state' = SHT15_READING_TEMP
            /\ command' = SHT15_MEASURE_TEMP
            /\ pc' = [pc EXCEPT ![c] = "m_cmd"]
            /\ UNCHANGED <<previous_config, measurements_valid,
                           measurement_age>>
       ELSE /\ measurements_valid' = TRUE
            /\ measurement_age' = 0
            /\ pc' = [pc EXCEPT ![c] = "unlock"]
            /\ UNCHANGED <<state, command, previous_config>>
    /\ UNCHANGED <<val_temp, val_humid, val_status, checksum_ok, status_valid,
                   status_age, checksumming, workVars, irqVars, devVars, op,
                   ret, read_lock, histVars>>
    /\ UNCHANGED <<lifeVars, pureVars>>

\* sht15_measurement(): wait_event_timeout returns 0; the interrupt is
\* disabled, the connection reset and -ETIME returned
MeasurementTimeout(c) ==
    /\ pc[c] = "m_wait"
    /\ state # SHT15_READING_NOTHING
    /\ waited >= TimeoutJiffies(command)
    /\ irq_depth < MaxIrqDepth
    /\ irq_depth' = disable_irq_nosync(irq_depth)
    /\ log' = log \o sht15_connection_reset
    /\ gpio_data' = 1
    /\ dev_state' = "idle"
    /\ dev_val' = 0
    /\ ret' = "ETIME"
    /\ waited' = 0
    /\ pc' = [pc EXCEPT ![c] = "unlock"]
    /\ UNCHANGED <<cacheVars, checksumming, state, workVars, irq_pending,
                   interrupt_handled, op, command, previous_config, read_lock,
                   stale, calls, humid_bad, temp_bad>>
    /\ UNCHANGED <<lifeVars, pureVars>>

\* a return that keeps the mutex when the call has failed
ReturnKeepsLockOnError(c) ==
    /\ pc[c] = "unlock"
    /\ read_lock' = IF ret = "OK" THEN 0 ELSE read_lock
    /\ pc' = [pc EXCEPT ![c] = IF ret = "OK" /\ op[c] # "heater" THEN "show"
                               ELSE "idle"]
    /\ op' = [op EXCEPT ![c] = IF ret = "OK" /\ op[c] # "heater" THEN op[c]
                               ELSE "none"]
    /\ ret' = "OK"
    /\ command' = 0
    /\ previous_config' = 0
    /\ log' = << >>
    /\ stale' = FALSE
    /\ UNCHANGED <<cacheVars, checksumming, state, workVars, irqVars, devVars,
                   waited, calls, humid_bad, temp_bad>>
    /\ UNCHANGED <<lifeVars, pureVars>>

\* mutex_unlock and the return to the sysfs show or store function
MutexUnlock(c) ==
    /\ pc[c] = "unlock"
    /\ read_lock' = 0
    /\ pc' = [pc EXCEPT ![c] = IF ret = "OK" /\ op[c] # "heater" THEN "show"
                               ELSE "idle"]
    /\ op' = [op EXCEPT ![c] = IF ret = "OK" /\ op[c] # "heater" THEN op[c]
                               ELSE "none"]
    /\ ret' = "OK"
    /\ command' = 0
    /\ previous_config' = 0
    /\ log' = << >>
    /\ stale' = FALSE
    /\ UNCHANGED <<cacheVars, checksumming, state, workVars, irqVars, devVars,
                   waited, calls, humid_bad, temp_bad>>
    /\ UNCHANGED <<lifeVars, pureVars>>

\* sht15_show_temp, sht15_show_humidity, sht15_show_status: the value is
\* computed from the caches after the mutex has been released
Show(c) ==
    /\ pc[c] = "show"
    /\ pc' = [pc EXCEPT ![c] = "idle"]
    /\ op' = [op EXCEPT ![c] = "none"]
    /\ UNCHANGED <<cacheVars, checksumming, state, workVars, irqVars, devVars,
                   ret, command, previous_config, waited, read_lock, histVars>>
    /\ UNCHANGED <<lifeVars, pureVars>>

(***************************************************************************)
(* The device, the interrupt and the work queue                            *)
(***************************************************************************)
\* the result of the measurement the device was asked for
DevResult(cmd) == IF cmd = SHT15_MEASURE_TEMP THEN RawTemp ELSE RawHumid

\* the device ends its measurement and pulls the data line low.  The falling
\* edge is latched when the interrupt is enabled; while it is disabled the
\* interrupt controller may latch the edge or lose it.
DeviceReady ==
    /\ dev_state = "measuring"
    /\ dev_state' = "ready"
    /\ dev_val' = DevResult(command)
    /\ gpio_data' = 0
    /\ IF irq_depth = 0
       THEN irq_pending' = TRUE
       ELSE irq_pending' \in {irq_pending, TRUE}
    /\ UNCHANGED <<cacheVars, checksumming, state, workVars, irq_depth,
                   interrupt_handled, callVars, histVars>>
    /\ UNCHANGED <<lifeVars, pureVars>>

\* atomic_inc of interrupt_handled, which is only ever compared with 0
atomic_inc(v) == IF v = 0 THEN 1 ELSE v

\* sht15_interrupt_fired(): a latched edge is delivered once the interrupt is
\* enabled; disable_irq_nosync, atomic_inc, schedule_work
sht15_interrupt_fired ==
    /\ irq_pending
    /\ irq_depth = 0
    /\ irq_pending' = FALSE
    /\ irq_depth' = disable_irq_nosync(irq_depth)
    /\ interrupt_handled' = atomic_inc(interrupt_handled)
    /\ work_pending' = (work_pending \/ state # SHT15_READING_NOTHING)
    /\ UNCHANGED <<cacheVars, checksumming, state, work_pc, devVars, callVars,
                   histVars>>
    /\ UNCHANGED <<lifeVars, pureVars>>

\* sht15_bh_read_data() starts: firstly, verify the line is low
sht15_bh_read_data ==
    /\ work_pending
    /\ work_pc = "idle"
    /\ work_pending' = FALSE
    /\ work_pc' = IF gpio_data = 0 THEN "read" ELSE "rearm"
    /\ UNCHANGED <<cacheVars, checksumming, state, irqVars, devVars, callVars,
                   histVars>>
    /\ UNCHANGED <<lifeVars, pureVars>>

\* sht15_bh_read_data(): the line is high, the interrupt is started again
WorkRearm ==
    /\ work_pc = "rearm"
    /\ interrupt_handled' = 0
    /\ irq_depth' = enable_irq(irq_depth)
    /\ work_pc' = "recheck"
    /\ UNCHANGED <<cacheVars, checksumming, state, work_pending, irq_pending,
                   devVars, callVars, histVars>>
    /\ UNCHANGED <<lifeVars, pureVars>>

\* sht15_bh_read_data(): return if the line is still high or another handler
\* was scheduled
WorkRecheck ==
    /\ work_pc = "recheck"
    /\ work_pc' = IF gpio_data # 0 \/ interrupt_handled # 0 THEN "idle"
                  ELSE "read"
    /\ UNCHANGED <<cacheVars, checksumming, state, work_pending, irqVars,
                   devVars, callVars, histVars>>
    /\ UNCHANGED <<lifeVars, pureVars>>

\* the command sht15_bh_read_data puts first in checksum_vals
ChecksumCommand(st) ==
    IF st = SHT15_READING_TEMP THEN SHT15_MEASURE_TEMP ELSE SHT15_MEASURE_RH

\* checksum_vals of a measurement: the command, the high byte, the low byte
ChecksumVals(st, val) == <<ChecksumCommand(st), val \div 256, val % 256>>

\* the two bytes the device sends, the high byte first: the result of a ready
\* device; a device with no result leaves the line to the host, which reads as
\* zeros
DevBytes ==
    IF dev_state = "ready" THEN << dev_val \div 256, dev_val % 256 >>
    ELSE << 0, 0 >>

\* val = sht15_read_byte(data); val <<= 8; val |= sht15_read_byte(data)
Word16(first, second) == first * 256 + second

\* what sht15_bh_read_data reads back from the device
ReadVal == Word16(DevBytes[1], DevBytes[2])

\* a switch with its two cases exchanged; C17 must notice
StoreSlotSwapped(st) ==
    IF st = SHT15_READING_TEMP THEN "val_humid"
    ELSE IF st = SHT15_READING_HUMID THEN "val_temp"
    ELSE "none"

\* the slot sht15_bh_read_data stores val in: switch (data->state)
StoreSlot(st) ==
    IF st = SHT15_READING_TEMP THEN "val_temp"
    ELSE IF st = SHT15_READING_HUMID THEN "val_humid"
    ELSE "none"

\* sht15_bh_read_data(): the two bytes and, with checksumming, the checksum
\* are read back and the transmission is ended; the value goes to the slot of
\* the state, the state to SHT15_READING_NOTHING, and the caller is woken
WorkRead ==
    /\ work_pc = "read"
    /\ \E dev_byte \in DevChecksums(sht15_crc8(val_status,
                                               ChecksumVals(state, ReadVal))) :
         LET ok == IF checksumming
                   THEN ChecksumOk(val_status, ChecksumVals(state, ReadVal),
                                   dev_byte)
                   ELSE checksum_ok
         IN  /\ checksum_ok' = ok
             /\ temp_bad' = IF StoreSlot(state) = "val_temp"
                            THEN ChecksumFailed(ok) ELSE temp_bad
             /\ humid_bad' = IF StoreSlot(state) = "val_humid"
                             THEN ChecksumFailed(ok) ELSE humid_bad
    /\ val_temp' = IF StoreSlot(state) = "val_temp" THEN ReadVal ELSE val_temp
    /\ val_humid' = IF StoreSlot(state) = "val_humid" THEN ReadVal
                    ELSE val_humid
    /\ state' = SHT15_READING_NOTHING
    /\ dev_state' = "idle"
    /\ dev_val' = 0
    /\ gpio_data' = 1
    /\ work_pc' = "idle"
    /\ UNCHANGED <<val_status, measurements_valid, status_valid,
                   measurement_age, status_age, checksumming, work_pending,
                   irqVars, callVars, log, stale, calls>>
    /\ UNCHANGED <<lifeVars, pureVars>>

\* an age one jiffy later
Older(age) == IF age > HZ THEN age ELSE age + 1

\* a jiffy passes
Tick ==
    /\ status_age' = Older(status_age)
    /\ measurement_age' = Older(measurement_age)
    /\ waited' = IF (\E c \in Callers : pc[c] = "m_wait")
                    /\ waited < TimeoutJiffies(command)
                 THEN waited + 1 ELSE waited
    /\ UNCHANGED <<val_temp, val_humid, val_status, checksum_ok,
                   measurements_valid, status_valid, checksumming, state,
                   workVars, irqVars, devVars, pc, op, ret, command,
                   previous_config, read_lock, histVars>>
    /\ UNCHANGED <<lifeVars, pureVars>>

Next ==
    \/ \E c \in Callers : sht15_update_status(c)
    \/ \E c \in Callers : UpdateStatusCmd(c)
    \/ \E c \in Callers : UpdateStatusRead(c)
    \/ \E c \in Callers : RecoverySoftReset(c)
    \/ \E c \in Callers : RecoverySendStatus(c)
    \/ \E c \in Callers : sht15_store_heater(c)
    \/ \E c \in Callers : sht15_update_measurements(c)
    \/ \E c \in Callers : MeasurementCmd(c)
    \/ \E c \in Callers : MeasurementArm(c)
    \/ \E c \in Callers : MeasurementCheck(c)
    \/ \E c \in Callers : MeasurementSchedule(c)
    \/ \E c \in Callers : MeasurementWake(c)
    \/ \E c \in Callers : MeasurementTimeout(c)
    \/ \E c \in Callers : MutexUnlock(c)
    \/ \E c \in Callers : Show(c)
    \/ DeviceReady
    \/ sht15_interrupt_fired
    \/ sht15_bh_read_data
    \/ WorkRearm
    \/ WorkRecheck
    \/ WorkRead
    \/ Tick

Spec == Init /\ [][Next]_vars

\* the next step of a caller that is inside a call: the thread runs on
Proceed(c) ==
    \/ UpdateStatusCmd(c)
    \/ UpdateStatusRead(c)
    \/ RecoverySoftReset(c)
    \/ RecoverySendStatus(c)
    \/ MeasurementCmd(c)
    \/ MeasurementArm(c)
    \/ MeasurementCheck(c)
    \/ MeasurementSchedule(c)
    \/ MeasurementWake(c)
    \/ MeasurementTimeout(c)
    \/ MutexUnlock(c)
    \/ Show(c)

\* a caller inside a call can run, unless it sleeps in wait_event_timeout
\* with the state not yet back at SHT15_READING_NOTHING and the timeout not
\* yet run out
Runnable(c) ==
    /\ pc[c] # "idle"
    /\ pc[c] = "m_wait" =>
          \/ state = SHT15_READING_NOTHING
          \/ waited >= TimeoutJiffies(command)

\* Runnable(c) is the enabling condition of Proceed(c)
RunnableIsEnabled ==
    \A c \in Callers : Runnable(c) <=> ENABLED <<Proceed(c)>>_vars

\* fair scheduling: jiffies advance, and a thread that can run does run.
\* Nothing is asked of the device, the interrupt or the work queue.  The
\* second conjunct is WF_vars(Proceed(c)) with its enabling condition
\* written as Runnable(c).
FairSpec ==
    /\ Spec
    /\ WF_vars(Tick)
    /\ \A c \in Callers :
          []<>(~Runnable(c)) \/ []<><<Proceed(c)>>_vars

(***************************************************************************)
(* The platform device: sht15_probe, the regulator notifier and its work,  *)
(* sht15_remove                                                            *)
(***************************************************************************)
\* the calls of sht15_probe that can make it fail, in the order of the code
ProbeSteps ==
    << "kzalloc", "platform_data", "regulator_register_notifier",
       "gpio_request_sck", "gpio_request_data", "request_irq",
       "sht15_soft_reset", "sht15_send_status", "sysfs_create_group",
       "hwmon_device_register" >>

\* the place of a step in sht15_probe; "none", no failure, lies past the end
StepPos(step) ==
    IF step = "none" THEN Len(ProbeSteps) + 1
    ELSE CHOOSE i \in 1 .. Len(ProbeSteps) : ProbeSteps[i] = step

\* the step succeeded before the probe failed at fail
Passed(step, fail) == StepPos(step) < StepPos(fail)

\* what sht15_probe has acquired when it fails at fail (or not at all); reg
\* tells that regulator_get found a regulator
ProbeAcquired(fail, reg) ==
    [r \in Resources |->
        IF CASE r = "data" -> Passed("kzalloc", fail)
             [] r = "reg" -> reg /\ Passed("platform_data", fail)
             [] r = "regulator_enable" -> reg /\ Passed("platform_data", fail)
             [] r = "nb" -> reg /\ Passed("regulator_register_notifier", fail)
             [] r = "gpio_sck" -> Passed("gpio_request_sck", fail)
             [] r = "gpio_data" -> Passed("gpio_request_data", fail)
             [] r = "irq" -> Passed("request_irq", fail)
             [] r = "sht15_attr_group" -> Passed("sysfs_create_group", fail)
             [] r = "hwmon_dev" -> Passed("hwmon_device_register", fail)
        THEN 1 ELSE 0]

\* the labels at the end of sht15_probe, in the order of the code
ErrorLabels ==
    << "err_release_sysfs_group", "err_release_irq", "err_release_gpio_data",
       "err_release_gpio_sck", "err_release_reg", "err_free_data",
       "error_ret" >>

\* what the code under one label releases
LabelReleases(label, reg) ==
    CASE label = "err_release_sysfs_group" -> {"sht15_attr_group"}
      [] label = "err_release_irq" -> {"irq"}
      [] label = "err_release_gpio_data" -> {"gpio_data"}
      [] label = "err_release_gpio_sck" -> {"gpio_sck"}
      [] label = "err_release_reg" ->
             IF reg THEN {"nb", "regulator_enable", "reg"} ELSE {}
      [] label = "err_free_data" -> {"data"}
      [] label = "error_ret" -> {}

\* a failed notifier registration that leaves the regulator to the labels
\* as well as releasing it in place
GotoReleaseReg(fail) ==
    IF fail = "regulator_register_notifier" THEN "err_release_reg"
    ELSE "err_release_irq"

\* the label each failing step jumps to
ErrorLabel(fail) ==
    CASE fail = "kzalloc" -> "error_ret"
      [] fail = "platform_data" -> "err_free_data"
      [] fail = "regulator_register_notifier" -> "err_free_data"
      [] fail = "gpio_request_sck" -> "err_release_reg"
      [] fail = "gpio_request_data" -> "err_release_gpio_sck"
      [] fail = "request_irq" -> "err_release_gpio_data"
      [] fail = "sht15_soft_reset" -> "err_release_irq"
      [] fail = "sht15_send_status" -> "err_release_irq"
      [] fail = "sysfs_create_group" -> "err_release_irq"
      [] fail = "hwmon_device_register" -> "err_release_sysfs_group"

\* what a failing step releases itself before it jumps
InlineReleases(fail) ==
    IF fail = "regulator_register_notifier"
    THEN {"regulator_enable", "reg"}
    ELSE {}

\* how often each resource is released on the way out of a failed probe: in
\* place, and under every label from the one jumped to down to error_ret
ProbeReleased(fail, reg) ==
    LET from == CHOOSE i \in 1 .. Len(ErrorLabels) :
                    ErrorLabels[i] = ErrorLabel(fail)
        times(r) == Cardinality({i \in from .. Len(ErrorLabels) :
                                    r \in LabelReleases(ErrorLabels[i], reg)})
    IN  [r \in Resources |->
            times(r) + (IF r \in InlineReleases(fail) THEN 1 ELSE 0)]

\* ret of a failed probe: -ENOMEM, -EINVAL, what the two exchanges with the
\* device returned, or the error the kernel call returned, named by the call
ProbeError(fail, reset, sent) ==
    CASE fail = "kzalloc" -> "ENOMEM"
      [] fail = "platform_data" -> "EINVAL"
      [] fail = "sht15_soft_reset" -> reset.ret
      [] fail = "sht15_send_status" -> sent.ret
      [] OTHER -> "error of " \o fail

\* a refresh that keeps the voltage it has
KeepVoltage == supply_uV

\* regulator_get_voltage(data->reg)
regulator_get_voltage == regulator_uV

\* a device that has not been probed yet
LifeInit ==
    /\ StructInit
    /\ val_temp = 0
    /\ val_humid = 0
    /\ val_status = 0
    /\ checksumming = FALSE
    /\ life = "unbound"
    /\ life_ret = "OK"
    /\ acquired = [r \in Resources |-> 0]
    /\ released = [r \in Resources |-> 0]
    /\ supply_uV = 0
    /\ supply_uV_valid = FALSE
    /\ valid_writer = "kzalloc"
    /\ regulator_uV \in RegulatorVoltage
    /\ supply_work_pending = FALSE
    /\ NoEvaluation

\* sht15_probe(), which runs before any attribute exists.  Every call in it
\* that can fail may fail; the regulator may be missing; once the notifier is
\* registered, the regulator may notify before the probe returns.
sht15_probe ==
    /\ life = "unbound"
    /\ \E fail \in {ProbeSteps[i] : i \in 1 .. Len(ProbeSteps)} \cup {"none"},
          reg \in BOOLEAN, notified \in BOOLEAN, checksum \in BOOLEAN,
          status \in PdataStatus, mv \in PdataSupply :
         LET voltage == regulator_get_voltage
             reset == sht15_soft_reset(fail # "sht15_soft_reset")
             sent == sht15_send_status(status, fail # "sht15_send_status",
                                       TRUE)
         IN  /\ fail = "regulator_register_notifier" => reg
             /\ fail = "sht15_send_status" => status # 0
             /\ notified =>
                    reg /\ Passed("regulator_register_notifier", fail)
             /\ acquired' = ProbeAcquired(fail, reg)
             /\ supply_work_pending' = notified
             /\ IF fail = "none"
                THEN /\ life' = "bound"
                     /\ life_ret' = "OK"
                     /\ released' = released
                     /\ checksumming' = checksum
                     /\ val_status' =
                            IF status # 0 THEN sent.mirror ELSE reset.mirror
                     /\ supply_uV' =
                            IF reg /\ voltage # 0 THEN voltage ELSE mv * 1000
                     /\ irq_depth' = disable_irq_nosync(enable_irq(irq_depth))
                ELSE /\ life' = "probe_failed"
                     /\ life_ret' = ProbeError(fail, reset, sent)
                     /\ released' = ProbeReleased(fail, reg)
                     /\ UNCHANGED <<checksumming, val_status, supply_uV,
                                    irq_depth>>
    /\ UNCHANGED <<val_temp, val_humid, checksum_ok, measurements_valid,
                   status_valid, measurement_age, status_age, state, workVars,
                   irq_pending, interrupt_handled, devVars, callVars,
                   histVars, supply_uV_valid, valid_writer, regulator_uV,
                   pureVars>>

\* the notifier is registered with the regulator
NotifierRegistered == acquired["nb"] > released["nb"]

\* the events a regulator notifies its consumers of
RegulatorEvents == {"REGULATOR_EVENT_VOLTAGE_CHANGE", "REGULATOR_EVENT_DISABLE"}

\* sht15_invalidate_voltage(): the regulator notifies, of a voltage that has
\* changed or of something else; the callback clears supply_uV_valid on a
\* voltage change and queues update_supply_work on every event
sht15_invalidate_voltage ==
    /\ life = "bound"
    /\ NotifierRegistered
    /\ \E event \in RegulatorEvents :
         IF event = "REGULATOR_EVENT_VOLTAGE_CHANGE"
         THEN /\ regulator_uV' \in RegulatorVoltage
              /\ supply_uV_valid' = FALSE
              /\ valid_writer' = "sht15_invalidate_voltage"
         ELSE UNCHANGED <<regulator_uV, supply_uV_valid, valid_writer>>
    /\ supply_work_pending' = TRUE
    /\ UNCHANGED <<driverVars, life, life_ret, acquired, released, supply_uV,
                   pureVars>>

\* sht15_update_voltage(): the work reads the voltage from the regulator
sht15_update_voltage ==
    /\ life = "bound"
    /\ supply_work_pending
    /\ supply_work_pending' = FALSE
    /\ supply_uV' = regulator_get_voltage
    /\ UNCHANGED <<driverVars, life, life_ret, acquired, released,
                   supply_uV_valid, valid_writer, regulator_uV, pureVars>>

\* what sht15_remove releases once the soft reset has been acknowledged
RemoveReleases ==
    {"hwmon_dev", "sht15_attr_group", "irq", "gpio_data", "gpio_sck", "data"}
        \cup (IF acquired["reg"] > released["reg"]
              THEN {"nb", "regulator_enable", "reg"}
              ELSE {})

\* sht15_remove(): mutex_lock, the soft reset, and, when it is acknowledged,
\* the releases, mutex_unlock and kfree; -EFAULT with the mutex released and
\* nothing else done when it is not
sht15_remove ==
    /\ life = "bound"
    /\ read_lock = 0
    /\ \E acked \in BOOLEAN :
         LET r == sht15_soft_reset(acked)
         IN  /\ val_status' = r.mirror
             /\ IF r.ret = "OK"
                THEN /\ life' = "removed"
                     /\ life_ret' = "OK"
                     /\ dev_state' = "idle"
                     /\ irq_pending' = FALSE
                     /\ released' =
                            [x \in Resources |->
                                released[x]
                                  + (IF x \in RemoveReleases THEN 1 ELSE 0)]
                ELSE /\ life' = "remove_failed"
                     /\ life_ret' = "EFAULT"
                     /\ UNCHANGED <<dev_state, irq_pending, released>>
    /\ gpio_data' = 1
    /\ UNCHANGED <<val_temp, val_humid, checksum_ok, measurements_valid,
                   status_valid, measurement_age, status_age, checksumming,
                   state, workVars, irq_depth, interrupt_handled, dev_val,
                   callVars, histVars, acquired, supply_uV, supply_uV_valid,
                   valid_writer, regulator_uV, supply_work_pending, pureVars>>

\* the sysfs calls the life of a device is followed through
LifeCalls == 1

LifeNext ==
    \/ sht15_probe
    \/ sht15_invalidate_voltage
    \/ sht15_update_voltage
    \/ sht15_remove
    \/ life = "bound" /\ Next /\ calls' <= LifeCalls

LifeSpec == LifeInit /\ [][LifeNext]_vars

\* the system work queue runs the work that is queued on it
LifeFairSpec == LifeSpec /\ WF_vars(sht15_update_voltage)

(***************************************************************************)
(* The CRC validation on its own: one checksum exchange on drawn inputs     *)
(***************************************************************************)
\* the status mirrors the seed is taken from: every low nibble, and mirrors
\* with the battery bit or every bit set above it
CrcStatus == (0 .. 15) \cup {69, 255}

\* the first byte of a message is the command it answers
CrcCommands == {SHT15_MEASURE_TEMP, SHT15_MEASURE_RH, SHT15_READ_STATUS}

\* the bytes the device answers with
CrcBytes == {0, 165, 255}

\* checksum_vals: the two bytes of a status read, the three of a measurement
CrcMessages ==
    {<<a, b>> : a \in CrcCommands, b \in CrcBytes}
        \cup {<<a, b, d>> : a \in CrcCommands, b \in CrcBytes, d \in CrcBytes}

CrcInit ==
    /\ StructInit
    /\ val_temp = 0
    /\ val_humid = 0
    /\ val_status \in CrcStatus
    /\ checksumming = TRUE
    /\ life = "none"
    /\ life_ret = "OK"
    /\ acquired = [r \in Resources |-> 0]
    /\ released = [r \in Resources |-> 0]
    /\ supply_uV = 0
    /\ supply_uV_valid = FALSE
    /\ valid_writer = "kzalloc"
    /\ regulator_uV = 0
    /\ supply_work_pending = FALSE
    /\ pure_pc = "crc"
    /\ checksum_vals \in CrcMessages
    /\ dev_checksum \in 0 .. 255
    /\ calc = 0

\* the checksum exchange of sht15_update_status and sht15_bh_read_data: the
\* CRC of checksum_vals against the reversed byte of the device
ValidateChecksum ==
    /\ pure_pc = "crc"
    /\ pure_pc' = "crc_done"
    /\ calc' = sht15_crc8(val_status, checksum_vals)
    /\ checksum_ok' = ChecksumOk(val_status, checksum_vals, dev_checksum)
    /\ UNCHANGED <<val_temp, val_humid, val_status, measurements_valid,
                   status_valid, measurement_age, status_age, checksumming,
                   state, workVars, irqVars, devVars, callVars, histVars,
                   lifeVars, checksum_vals, dev_checksum>>

CrcNext == ValidateChecksum

CrcSpec == CrcInit /\ [][CrcNext]_vars

(***************************************************************************)
(* The conversion of the raw temperature on its own, on drawn inputs        *)
(***************************************************************************)
\* the division of C, which truncates toward zero
CDiv(a, b) ==
    IF (a >= 0) = (b > 0) THEN a \div b
    ELSE -((-a) \div b)

\* temppoints[], indexed from 1 here
temppoints ==
    << [vdd |-> 2500000, d1 |-> -39400],
       [vdd |-> 3000000, d1 |-> -39600],
       [vdd |-> 3500000, d1 |-> -39700],
       [vdd |-> 4000000, d1 |-> -39800],
       [vdd |-> 5000000, d1 |-> -40100] >>

\* a conversion that takes the slope of the high resolution whatever the
\* status says
TempD2HighResolution(status) == 10

\* d2 of sht15_calc_temp
TempD2(status) ==
    IF BitAnd(status, SHT15_STATUS_LOW_RESOLUTION) # 0 THEN 40 ELSE 10

\* the loop of sht15_calc_temp from index i down: the first table point
\* below the supply is interpolated with the point above it
RECURSIVE TempD1(_, _)
TempD1(supply, i) ==
    IF i <= 1 THEN temppoints[1].d1
    ELSE IF supply > temppoints[i - 1].vdd
         THEN CDiv((supply - temppoints[i - 1].vdd)
                     * (temppoints[i].d1 - temppoints[i - 1].d1),
                   temppoints[i].vdd - temppoints[i - 1].vdd)
                + temppoints[i - 1].d1
         ELSE TempD1(supply, i - 1)

\* a conversion that takes d1 of the lowest table point whatever the supply
CalcTempNoInterpolation ==
    val_temp * TempD2(val_status) + temppoints[1].d1

sht15_calc_temp ==
    val_temp * TempD2(val_status) + TempD1(supply_uV, Len(temppoints))

\* the mirrors the resolution is taken from
CalcStatus == {0, 1, 4, 65}

\* raw temperatures: 14 bits at high resolution, 12 bits at low resolution
CalcRawTemp == {0, 800, 4700, 6400, 16383}

\* supply voltages in microvolts: below, on, between and above the table
\* points.  Up to 10 V the product of the interpolation stays within the 32
\* bits of an int (6000000 * 300 at most), so no value here wraps.
CalcSupply ==
    {0, 2400000, 2500000, 2800000, 3000000, 3100000, 3300000, 3500000,
     4200000, 5000000, 5500000, 10000000}

CalcInit ==
    /\ StructInit
    /\ val_status \in CalcStatus
    /\ checksumming = FALSE
    /\ life = "none"
    /\ life_ret = "OK"
    /\ acquired = [r \in Resources |-> 0]
    /\ released = [r \in Resources |-> 0]
    /\ supply_uV \in CalcSupply
    /\ supply_uV_valid = FALSE
    /\ valid_writer = "kzalloc"
    /\ regulator_uV = supply_uV
    /\ supply_work_pending = FALSE
    /\ pure_pc = "calc_temp"
    /\ checksum_vals = << >>
    /\ dev_checksum = 0
    /\ calc = 0
    /\ val_temp \in CalcRawTemp
    /\ val_humid = 0

\* sht15_show_temp prints sht15_calc_temp(data)
CalcTemp ==
    /\ pure_pc = "calc_temp"
    /\ pure_pc' = "calc_done"
    /\ calc' = sht15_calc_temp
    /\ UNCHANGED <<driverVars, lifeVars, checksum_vals, dev_checksum>>

CalcNext == CalcTemp

CalcSpec == CalcInit /\ [][CalcNext]_vars

(***************************************************************************)
(* Claims                                                                  *)
(***************************************************************************)
\* the caller is inside a conversation with the device: it holds the mutex
InConversation(c) == pc[c] \notin {"idle", "show"}

\* the caller has armed the completion interrupt of a measurement and has
\* neither been woken nor timed out
MeasurementOutstanding(c) == pc[c] \in {"m_check", "m_sched", "m_wait"}

\* C1: conversations of different callers never interleave: at most one
\* caller is inside a conversation, it is the holder of the mutex, and
\* sht15_bh_read_data runs (samples the data line, re-arms the interrupt,
\* reads the result, writes the session) only while the measurement of the
\* caller that armed it is outstanding, never after that caller has timed out
\* and released the mutex.
C1_OneConversation ==
    /\ \A c, d \in Callers : InConversation(c) /\ InConversation(d) => c = d
    /\ \A c \in Callers : InConversation(c) => read_lock = c
    /\ work_pc # "idle" => \E c \in Callers : MeasurementOutstanding(c)

\* C4: when a measurement has timed out, so that the call returns -ETIME,
\* the state is back at SHT15_READING_NOTHING.
C4_TimeoutLeavesIdle ==
    \A c \in Callers :
        pc[c] = "unlock" /\ ret = "ETIME" => state = SHT15_READING_NOTHING

\* C5: a result the device holds ready for a waiting caller is read by the
\* deferred-read routine: while the caller waits and the data line has been
\* pulled low by the device, the work is queued or running or the interrupt
\* that queues it is about to be delivered.
C5_ReadyResultIsRead ==
    \A c \in Callers :
        pc[c] = "m_wait" /\ dev_state = "ready" =>
            \/ work_pending
            \/ work_pc # "idle"
            \/ irq_pending /\ irq_depth = 0

\* C8: the state differs from SHT15_READING_NOTHING only while a caller is
\* inside sht15_measurement, from its measurement command to the completion
\* or the timeout; so no other command goes out while it differs.
C8_PendingImpliesMeasurement ==
    state # SHT15_READING_NOTHING =>
        \E c \in Callers :
            pc[c] \in {"m_cmd", "m_arm", "m_check", "m_sched", "m_wait"}

(***************************************************************************)
(* Reading the log of the call that holds the mutex                        *)
(***************************************************************************)
HasEv(l, e) == \E i \in 1..Len(l) : l[i] = e

CountEv(l, e) == Cardinality({i \in 1..Len(l) : l[i] = e})

\* the command went out and the device acknowledged it
CmdAcked(l, cmd) ==
    \E i \in 1..Len(l) :
        l[i] = EvCmd(cmd) /\ (i = Len(l) \/ l[i + 1] # EvNak)

\* what a step adds to the log
NewEvents ==
    IF Len(log') > Len(log) THEN SubSeq(log', Len(log) + 1, Len(log'))
    ELSE << >>

\* the step is the entry of caller c into a call on the attribute o
Enters(c, o) == pc[c] = "idle" /\ op'[c] = o

\* the step ends the device conversation of caller c: the call is about to
\* unlock the mutex and return ret
Returns(c) == pc[c] # "unlock" /\ pc'[c] = "unlock"

\* C2: a read of the status mirror, or of the measurement cache, made while
\* the cache is valid and at most HZ jiffies old returns without one command
\* on the bus.  A read made while it is invalid or older goes to the device,
\* and by the time it returns it has sent exactly one read-status command,
\* respectively exactly one measure-humidity command followed by at most one
\* measure-temperature command; when it returns success it has sent both, the
\* cache is valid and its stamp is the current time.
C2_Staleness ==
    [][\A c \in Callers :
        /\ Enters(c, "status") =>
             IF status_valid /\ status_age <= HZ
             THEN pc'[c] = "unlock" /\ log' = << >> /\ ret' = "OK" /\ ~stale'
             ELSE pc'[c] = "us_cmd" /\ stale'
        /\ Enters(c, "meas") =>
             IF measurements_valid /\ measurement_age <= HZ
             THEN pc'[c] = "unlock" /\ log' = << >> /\ ret' = "OK" /\ ~stale'
             ELSE pc'[c] = "m_cmd" /\ stale'
        /\ Returns(c) /\ stale' /\ op'[c] = "status" =>
             /\ log'[1] = EvCmd(SHT15_READ_STATUS)
             /\ CountEv(log', EvCmd(SHT15_READ_STATUS)) = 1
             /\ ret' = "OK" => status_valid' /\ status_age' = 0
        /\ Returns(c) /\ stale' /\ op'[c] = "meas" =>
             /\ log'[1] = EvCmd(SHT15_MEASURE_RH)
             /\ CountEv(log', EvCmd(SHT15_MEASURE_RH)) = 1
             /\ CountEv(log', EvCmd(SHT15_MEASURE_TEMP)) <= 1
             /\ CountEv(log', EvCmd(SHT15_READ_STATUS)) = 0
             /\ ret' = "OK" =>
                  /\ log' = << EvCmd(SHT15_MEASURE_RH),
                               EvCmd(SHT15_MEASURE_TEMP) >>
                  /\ measurements_valid'
                  /\ measurement_age' = 0
      ]_vars

\* the measurement cache has been refreshed by one call, and a second read
\* inside the window has returned from the cache
C2_Witness ==
    /\ calls = 2
    /\ \E c \in Callers :
         /\ pc[c] = "unlock"
         /\ op[c] = "meas"
         /\ ret = "OK"
         /\ ~stale
         /\ log = << >>
         /\ measurements_valid
         /\ measurement_age > 0

\* C9: a NAK is followed by a connection reset before anything else happens
\* on the bus; the call then sends nothing more (no retry) and returns -EIO.
C9_NakResetsAndFails ==
    /\ \A i \in 1..Len(log) :
         log[i] = EvNak =>
             /\ i + 1 = Len(log)
             /\ log[i + 1] = EvConnectionReset
    /\ \A c \in Callers :
         HasEv(log, EvNak) /\ InConversation(c) =>
             pc[c] = "unlock" /\ ret = "EIO"

\* the temperature command of a measurement cycle has been NAKed
C9_Witness ==
    \E c \in Callers :
        /\ pc[c] = "unlock"
        /\ ret = "EIO"
        /\ log = << EvCmd(SHT15_MEASURE_RH), EvCmd(SHT15_MEASURE_TEMP), EvNak,
                    EvConnectionReset >>

\* C10: a step that sends the write-status command sets the mirror to the
\* byte it sent when the command and the byte are both acknowledged, and
\* returns no error of its own; when either is NAKed the mirror is unchanged
\* and -EIO returned.  status_valid and the stamp of the status are unchanged
\* either way.
C10_SendStatusFrame ==
    [][HasEv(NewEvents, EvCmd(SHT15_WRITE_STATUS)) =>
        /\ IF HasEv(NewEvents, EvNak)
           THEN val_status' = val_status /\ ret' = "EIO"
           ELSE /\ \E bits \in 0..255 :
                     /\ HasEv(NewEvents, EvByte(bits))
                     /\ val_status' = bits
                /\ ret' \in {"OK", "EAGAIN"}
        /\ status_valid' = status_valid
        /\ status_age' = status_age
      ]_vars

\* the heater has been switched on over a valid status mirror
C10_Witness ==
    \E c \in Callers :
        /\ pc[c] = "unlock"
        /\ op[c] = "heater"
        /\ ret = "OK"
        /\ status_valid
        /\ log = << EvCmd(SHT15_WRITE_STATUS), EvByte(val_status) >>
        /\ BitAnd(val_status, SHT15_STATUS_HEATER) # 0

\* every a in the log comes before every b
Before(l, a, b) ==
    \A i, j \in 1..Len(l) : l[i] = a /\ l[j] = b => i < j

\* the status read of caller c receives a byte whose checksum mismatches
StatusMismatch(c) ==
    /\ op[c] = "status"
    /\ pc[c] = "us_read"
    /\ pc'[c] # "us_read"
    /\ checksumming
    /\ ~checksum_ok'

\* nothing of the byte received is kept, and the recovery begins with the
\* configuration bits of the mirror
MismatchFrame(c) ==
    /\ val_status' = val_status
    /\ status_valid' = status_valid
    /\ status_age' = status_age
    /\ previous_config' = BitAnd(val_status, CONFIG_MASK)
    /\ pc'[c] = "rec_reset"

\* caller c is in the recovery of a status read
InStatusRecovery(c) ==
    op[c] = "status" /\ pc[c] \in {"rec_reset", "rec_status"}

\* the recovery writes nothing but 0 and the restored bits to the mirror, and
\* leaves status_valid and the stamp alone
RecoveryFrame ==
    /\ val_status' \in {val_status, 0, previous_config}
    /\ status_valid' = status_valid
    /\ status_age' >= status_age

\* what the recovery has put on the bus when it returns, but for the number
\* of write-status commands
RecoveryConversation ==
    /\ CountEv(log', EvCmd(SHT15_SOFT_RESET)) = 1
    /\ CountEv(log', EvCmd(SHT15_WRITE_STATUS)) <= 1
    /\ Before(log', EvCmd(SHT15_SOFT_RESET), EvCmd(SHT15_WRITE_STATUS))
    /\ ret' # "OK"
    /\ ~HasEv(log', EvNak) => ret' = "EAGAIN"

\* C3 as stated: after a checksum mismatch of a status read there is exactly
\* one soft reset, followed by exactly one write-status command if and only
\* if the configuration bits of the mirror were non-zero; -EAGAIN is returned
\* when the commands are acknowledged; the byte received is not stored, and
\* status_valid and the stamp are not updated.
C3_AsStated ==
    [][\A c \in Callers :
        /\ StatusMismatch(c) => MismatchFrame(c)
        /\ InStatusRecovery(c) => RecoveryFrame
        /\ InStatusRecovery(c) /\ Returns(c) =>
             /\ RecoveryConversation
             /\ CountEv(log', EvCmd(SHT15_WRITE_STATUS)) = 1
                    <=> previous_config # 0
      ]_vars

\* C3, amended: as stated, but the write-status command follows if and only
\* if the configuration bits were non-zero and the soft reset has been
\* acknowledged; a NAK of the soft reset ends the recovery with -EIO.
C3_RecoveryOfStatusRead ==
    [][\A c \in Callers :
        /\ StatusMismatch(c) => MismatchFrame(c)
        /\ InStatusRecovery(c) => RecoveryFrame
        /\ InStatusRecovery(c) /\ Returns(c) =>
             /\ RecoveryConversation
             /\ CountEv(log', EvCmd(SHT15_WRITE_STATUS)) = 1
                    <=> /\ previous_config # 0
                        /\ CmdAcked(log', SHT15_SOFT_RESET)
             /\ ~CmdAcked(log', SHT15_SOFT_RESET) => ret' = "EIO"
      ]_vars

\* a status read over a mirror with a configuration bit set has failed its
\* checksum, the soft reset and the restore have been acknowledged
C3_Witness ==
    \E c \in Callers :
        /\ pc[c] = "unlock"
        /\ op[c] = "status"
        /\ ret = "EAGAIN"
        /\ previous_config # 0
        /\ val_status = previous_config
        /\ ~status_valid
        /\ log = << EvCmd(SHT15_READ_STATUS), EvCmd(SHT15_SOFT_RESET),
                    EvCmd(SHT15_WRITE_STATUS), EvByte(previous_config) >>

\* the step ends a refresh of caller c that has succeeded
RefreshSucceeds(c) ==
    Returns(c) /\ ret' = "OK" /\ (checksumming => checksum_ok')

\* C7: while a call refreshes the status mirror, no step but the one that
\* completes the refresh with success changes status_valid or the stamp of
\* the status, and when the refresh returns an error the mirror is still
\* invalid or older than HZ, so that the next read goes to the device; the
\* same for the measurement cache.
C7_FailedRefreshKeepsStale ==
    [][\A c \in Callers :
        /\ InConversation(c) /\ op[c] = "status" /\ ~RefreshSucceeds(c) =>
             /\ status_valid' = status_valid
             /\ status_age' >= status_age
        /\ InConversation(c) /\ op[c] = "meas" /\ ~RefreshSucceeds(c) =>
             /\ measurements_valid' = measurements_valid
             /\ measurement_age' >= measurement_age
        /\ Returns(c) /\ ret' # "OK" /\ op'[c] = "status" =>
             ~status_valid' \/ status_age' > HZ
        /\ Returns(c) /\ ret' # "OK" /\ op'[c] = "meas" =>
             ~measurements_valid' \/ measurement_age' > HZ
      ]_vars

\* the refresh of a measurement cache that had been valid and has aged out
\* fails on a checksum
C7_Witness ==
    \E c \in Callers :
        /\ pc[c] = "unlock"
        /\ op[c] = "meas"
        /\ ret = "EAGAIN"
        /\ measurements_valid
        /\ measurement_age > HZ

\* C6: sht15_show_temp and sht15_show_humidity never compute what they
\* return from a raw value whose exchange failed the CRC validation.
C6_NoFailedValueShown ==
    \A c \in Callers :
        pc[c] = "show" /\ op[c] = "meas" => ~humid_bad /\ ~temp_bad

\* C11: a step that sends the soft reset command zeroes the status mirror
\* when the command is acknowledged; when it is NAKed the mirror is unchanged
\* and -EIO returned.  (SHT15_TSRST, 11 ms, is below the jiffy of the model.)
C11_SoftResetMirror ==
    [][HasEv(NewEvents, EvCmd(SHT15_SOFT_RESET)) =>
        IF HasEv(NewEvents, EvNak)
        THEN val_status' = val_status /\ ret' = "EIO"
        ELSE val_status' = 0 /\ ret' # "EIO"
      ]_vars

\* an acknowledged soft reset has zeroed a mirror that had a bit set
C11_Witness ==
    \E c \in Callers :
        /\ pc[c] = "rec_status"
        /\ previous_config # 0
        /\ val_status = 0
        /\ log[Len(log)] = EvCmd(SHT15_SOFT_RESET)

\* caller c is in the checksum recovery of a status read or of a measurement
InRecovery(c) == pc[c] \in {"rec_reset", "rec_status"}

\* the resolution, OTP-reload and heater bits of a status byte
LowThreeBits(status) ==
    Bit(status, 0) * SHT15_STATUS_LOW_RESOLUTION
        + Bit(status, 1) * SHT15_STATUS_NO_OTP_RELOAD
        + Bit(status, 2) * SHT15_STATUS_HEATER

\* C12 as stated: a status byte written after the soft reset of a checksum
\* recovery never has the heater bit set.
C12_AsStated ==
    \A i, j \in 1..Len(log) :
        /\ i < j
        /\ log[i] = EvCmd(SHT15_SOFT_RESET)
        /\ log[j][1] = "byte"
        => BitAnd(log[j][2], SHT15_STATUS_HEATER) = 0

\* C12, amended: the recovery keeps the resolution, OTP-reload and heater
\* bits the mirror had when the checksum failed, and the byte it writes after
\* the soft reset is exactly those three bits; the battery bit and the
\* reserved bits are dropped.
C12_RestoresLowThreeBits ==
    [][\A c \in Callers :
        /\ ~InRecovery(c) /\ pc'[c] = "rec_reset" =>
             previous_config' = LowThreeBits(val_status)
        /\ InRecovery(c) => previous_config' = previous_config
        /\ InRecovery(c) /\ CmdAcked(NewEvents, SHT15_WRITE_STATUS) =>
             /\ HasEv(NewEvents, EvByte(previous_config))
             /\ CountEv(NewEvents, EvCmd(SHT15_WRITE_STATUS)) = 1
             /\ \A i \in 1..Len(NewEvents) :
                  NewEvents[i][1] = "byte" =>
                      NewEvents[i][2] = previous_config
      ]_vars

\* the recovery of a failed checksum has written the heater bit back
C12_Witness ==
    \E c \in Callers :
        /\ pc[c] = "unlock"
        /\ ret = "EAGAIN"
        /\ BitAnd(val_status, SHT15_STATUS_HEATER) # 0
        /\ HasEv(log, EvCmd(SHT15_SOFT_RESET))
        /\ log[Len(log)] = EvByte(val_status)

\* the 16 bit value the device holds, which it sends high byte first
DevWord == IF dev_state = "ready" THEN dev_val ELSE 0

\* C17: sht15_bh_read_data reads only after it has seen the data line low.
\* The step that reads stores the 16 bit value, first byte high, in the slot
\* of the state only (val_humid for SHT15_READING_HUMID, val_temp for
\* SHT15_READING_TEMP), leaves the other slot unchanged and sets the state to
\* SHT15_READING_NOTHING, which is what wakes the caller.  With the line still
\* high after the interrupt is re-armed it returns: nothing is read from the
\* device, nothing stored, the state unchanged.
C17_DeferredReadFrame ==
    [][/\ work_pc # "read" /\ work_pc' = "read" => gpio_data = 0
       /\ work_pc = "read" /\ work_pc' # "read" =>
            /\ val_humid' = IF state = SHT15_READING_HUMID THEN DevWord
                            ELSE val_humid
            /\ val_temp' = IF state = SHT15_READING_TEMP THEN DevWord
                           ELSE val_temp
            /\ state' = SHT15_READING_NOTHING
            /\ work_pc' = "idle"
       /\ work_pc = "recheck" /\ work_pc' # "recheck" =>
            /\ gpio_data # 0 => work_pc' = "idle"
            /\ work_pc' = "idle" =>
                 /\ val_humid' = val_humid
                 /\ val_temp' = val_temp
                 /\ state' = state
                 /\ dev_state' = dev_state
                 /\ checksum_ok' = checksum_ok
      ]_vars

\* both results of one cycle have been stored, each in its own slot, and the
\* caller is about to be woken for the second time
C17_Witness ==
    \E c \in Callers :
        /\ pc[c] = "m_wait"
        /\ command = SHT15_MEASURE_TEMP
        /\ state = SHT15_READING_NOTHING
        /\ val_humid = RawHumid
        /\ val_temp = RawTemp

\* the step takes caller c out of wait_event_timeout with the state not
\* back at SHT15_READING_NOTHING
WaitExpires(c) ==
    pc[c] = "m_wait" /\ pc'[c] # "m_wait" /\ state # SHT15_READING_NOTHING

\* C18: a caller leaves wait_event_timeout with the state not back at
\* SHT15_READING_NOTHING only when the timeout of its measurement (160 ms for
\* the humidity, 400 ms for the temperature) has passed; it then disables the
\* interrupt once, resets the connection and returns -ETIME at once: no soft
\* reset and no write-status, no value stored, the measurement cache neither
\* marked valid nor stamped.
C18_TimeoutPath ==
    [][\A c \in Callers : WaitExpires(c) =>
        /\ waited >= msecs_to_jiffies(IF command = SHT15_MEASURE_RH
                                      THEN TIMEOUT_RH_MSECS
                                      ELSE TIMEOUT_TEMP_MSECS)
        /\ irq_depth' = irq_depth + 1
        /\ NewEvents = << EvConnectionReset >>
        /\ pc'[c] = "unlock"
        /\ ret' = "ETIME"
        /\ val_temp' = val_temp
        /\ val_humid' = val_humid
        /\ measurements_valid' = measurements_valid
        /\ measurement_age' = measurement_age
        /\ val_status' = val_status
      ]_vars

\* the temperature measurement of a cycle has timed out after its humidity
\* measurement had completed
C18_Witness ==
    \E c \in Callers :
        /\ pc[c] = "unlock"
        /\ ret = "ETIME"
        /\ log = << EvCmd(SHT15_MEASURE_RH), EvCmd(SHT15_MEASURE_TEMP),
                    EvConnectionReset >>
        /\ ~measurements_valid

\* C19: when the soft reset of a checksum recovery has been acknowledged and
\* the write-status that restores the configuration has not, the call returns
\* -EIO, not -EAGAIN, and the mirror holds 0.
C19_RestoreFailure ==
    \A c \in Callers :
        /\ pc[c] = "unlock"
        /\ CmdAcked(log, SHT15_SOFT_RESET)
        /\ HasEv(log, EvCmd(SHT15_WRITE_STATUS))
        /\ HasEv(log, EvNak)
        => ret = "EIO" /\ val_status = 0

\* the recovery of a measurement has had its status byte NAKed
C19_Witness ==
    \E c \in Callers :
        /\ pc[c] = "unlock"
        /\ op[c] = "meas"
        /\ ret = "EIO"
        /\ val_status = 0
        /\ previous_config # 0
        /\ log = << EvCmd(SHT15_MEASURE_RH), EvCmd(SHT15_SOFT_RESET),
                    EvCmd(SHT15_WRITE_STATUS), EvByte(previous_config),
                    EvNak, EvConnectionReset >>

\* the step takes caller c from the humidity measurement, which it found
\* finished and free of error, on to the temperature measurement
Wakes(c) ==
    pc[c] = "m_wait" /\ pc'[c] = "m_cmd" /\ state = SHT15_READING_NOTHING

\* C16: in a refresh cycle the humidity measurement is sent first; the caller
\* goes on from a measurement only when the device has finished it and its
\* result has been read back and stored, so that the temperature command
\* follows a humidity that is complete; and measurements_valid is set, with
\* the stamp, only when both values of the device are in their slots and
\* neither exchange has failed.
C16_HumidityThenTemperature ==
    [][\A c \in Callers :
        /\ Wakes(c) =>
             /\ dev_state = "idle"
             /\ log[1] = EvCmd(SHT15_MEASURE_RH)
             /\ val_humid = DevResult(SHT15_MEASURE_RH)
        /\ op[c] = "meas" /\ Returns(c) /\ ret' = "OK" =>
             /\ log' = << EvCmd(SHT15_MEASURE_RH),
                          EvCmd(SHT15_MEASURE_TEMP) >>
             /\ val_humid' = DevResult(SHT15_MEASURE_RH)
             /\ val_temp' = DevResult(SHT15_MEASURE_TEMP)
             /\ ~humid_bad'
             /\ ~temp_bad'
        /\ op[c] = "meas" /\ InConversation(c)
              /\ (measurements_valid' # measurements_valid
                    \/ measurement_age' < measurement_age) =>
             Returns(c) /\ ret' = "OK"
      ]_vars

\* the CRC-8 of the datasheet, bit by bit: polynomial x^8 + x^5 + x^4 + 1
\* (0x31), the most significant bit first
RECURSIVE PolyShift(_, _)
PolyShift(crc, n) ==
    IF n = 0 THEN crc
    ELSE PolyShift(IF crc >= 128
                   THEN BitXor((crc * 2) % 256, 49)
                   ELSE crc * 2,
                   n - 1)

\* a byte with its bits in the opposite order
Mirror8(b) ==
    LET d(i) == (b \div (2 ^ i)) % 2
    IN  128 * d(0) + 64 * d(1) + 32 * d(2) + 16 * d(3)
          + 8 * d(4) + 4 * d(5) + 2 * d(6) + d(7)

\* the reference checksum of a message under a seed nibble
RECURSIVE RefCrc(_, _)
RefCrc(seed, msg) ==
    IF msg = << >> THEN seed
    ELSE RefCrc(PolyShift(BitXor(seed, Head(msg)), 8), Tail(msg))

\* C13: the checksum of a 2- or 3-byte message depends only on the low
\* nibble of the status mirror and the bytes, and is the CRC-8 of the message
\* started from the bit reversal of that nibble; the byte of the device is
\* accepted exactly when its bit reversal is that checksum, so the reversal
\* of the checksum is accepted and every other byte is refused.
C13_ChecksumValidation ==
    pure_pc = "crc_done" =>
        LET crc == RefCrc(Mirror8(val_status % 16), checksum_vals)
        IN  /\ calc = crc
            /\ checksum_ok <=> (Mirror8(dev_checksum) = crc)
            /\ checksum_ok <=> (dev_checksum = Mirror8(crc))

\* a measurement message under a seed that is not zero, with the battery bit
\* set above it, accepted on a byte that is not its own reversal
C13_Witness ==
    /\ pure_pc = "crc_done"
    /\ Len(checksum_vals) = 3
    /\ val_status = 69
    /\ checksum_ok
    /\ dev_checksum # calc

\* the case of the claim: 3.3 V, high resolution, raw temperature 800
C14_Case ==
    /\ pure_pc = "calc_done"
    /\ supply_uV = 3300000
    /\ val_status % 2 = 0
    /\ val_temp = 800

\* C14 as stated: at 3.3 V, high resolution and raw temperature 800 the
\* offset interpolated between the points of 3.0 V and 3.5 V is -39620 and
\* the temperature is 7380.
C14_AsStated ==
    C14_Case => calc - 800 * 10 = -39620 /\ calc = 7380

\* C14, amended: at 3.3 V, high resolution and raw temperature 800 the offset
\* lies on the line through (3.0 V, -39600) and (3.5 V, -39700), which makes
\* it -39660, and the temperature is 800 * 10 - 39660 = -31660.
C14_InterpolatedTemperature ==
    C14_Case =>
        LET offset == calc - 800 * 10
        IN  /\ (offset + 39600) * (3500000 - 3000000)
                 = (-39700 + 39600) * (3300000 - 3000000)
            /\ offset = -39660
            /\ calc = -31660

\* the conversion has been applied to the case of the claim
C14_Witness ==
    C14_Case /\ calc < 0 /\ val_status = 4

\* sht15_remove has returned
Detached == life \in {"removed", "remove_failed"}

\* everything that was acquired has been released, and no more often
AllReleased == \A r \in Resources : released[r] = acquired[r]

\* C15: when a detach returns, the device has been soft-reset, neither the
\* deferred read nor the voltage refresh is queued or running, and the
\* interrupt, both lines, the regulator and the memory have been released;
\* this also when the soft reset was not acknowledged.
C15_DetachDrainsAndReleases ==
    Detached =>
        /\ ~work_pending
        /\ work_pc = "idle"
        /\ ~supply_work_pending
        /\ AllReleased

\* the resources a probe holds when the call that returned the error failed,
\* the regulator and what hangs on it apart
HeldAt(error) ==
    CASE error = "ENOMEM" -> {}
      [] error = "EINVAL" -> {"data"}
      [] error = "error of regulator_register_notifier" -> {"data"}
      [] error = "error of gpio_request_sck" -> {"data"}
      [] error = "error of gpio_request_data" -> {"data", "gpio_sck"}
      [] error = "error of request_irq" -> {"data", "gpio_sck", "gpio_data"}
      [] error = "EIO" -> {"data", "gpio_sck", "gpio_data", "irq"}
      [] error = "error of sysfs_create_group" ->
             {"data", "gpio_sck", "gpio_data", "irq"}
      [] error = "error of hwmon_device_register" ->
             {"data", "gpio_sck", "gpio_data", "irq", "sht15_attr_group"}
      [] OTHER -> Resources

\* the regulator, its enable count and its notifier
OfRegulator == {"reg", "regulator_enable", "nb"}

\* C20: a probe that fails returns the error of the step that failed, keeps
\* nothing, and has released every resource the earlier steps acquired
\* exactly once: what was acquired is what precedes the failing step (with
\* the regulator when there is one, and its notifier once registered), and
\* each of these has been released once, nothing else at all.
C20_FailedProbeReleasesAll ==
    /\ life = "bound" => life_ret = "OK"
    /\ life = "probe_failed" =>
         /\ life_ret # "OK"
         /\ {r \in Resources : acquired[r] = 1} \ OfRegulator
               = HeldAt(life_ret)
         /\ \A r \in Resources : acquired[r] <= 1
         /\ acquired["regulator_enable"] = acquired["reg"]
         /\ acquired["nb"] <= acquired["reg"]
         /\ life_ret \in {"ENOMEM", "EINVAL"} => acquired["reg"] = 0
         /\ life_ret = "error of regulator_register_notifier" =>
                acquired["reg"] = 1 /\ acquired["nb"] = 0
         /\ AllReleased

\* the hwmon registration, the last step, has failed with a regulator and
\* its notifier in place
C20_Witness ==
    /\ life = "probe_failed"
    /\ life_ret = "error of hwmon_device_register"
    /\ acquired["nb"] = 1
    /\ acquired["sht15_attr_group"] = 1
    /\ released["sht15_attr_group"] = 1

\* the quotient with its fraction dropped, whatever the signs
Truncated(a, b) ==
    LET abs(x) == IF x < 0 THEN -x ELSE x
        q == abs(a) \div abs(b)
    IN  IF (a < 0) # (b < 0) THEN -q ELSE q

\* the offset at voltage v on the line through table points j and j + 1
OnSegment(j, v) ==
    temppoints[j].d1
      + Truncated((v - temppoints[j].vdd)
                    * (temppoints[j + 1].d1 - temppoints[j].d1),
                  temppoints[j + 1].vdd - temppoints[j].vdd)

\* the slope the status asks for
SlopeOf(status) == IF status % 2 = 1 THEN 40 ELSE 10

\* the offset the conversion has used
UsedOffset == calc - val_temp * SlopeOf(val_status)

\* the offset up to and on the table points
OffsetAtPoints ==
    /\ supply_uV <= temppoints[1].vdd => UsedOffset = -39400
    /\ \A j \in 1 .. Len(temppoints) :
          supply_uV = temppoints[j].vdd => UsedOffset = temppoints[j].d1

SegmentOf(v) ==
    CHOOSE j \in 1 .. Len(temppoints) - 1 :
       /\ temppoints[j].vdd < v
       /\ \A k \in 1 .. Len(temppoints) - 1 : temppoints[k].vdd < v => k <= j

RefreshRuns == supply_work_pending /\ ~supply_work_pending'

\* the step writes one of the supply-voltage fields of the struct
WritesSupplyField ==
    \/ supply_uV' # supply_uV
    \/ supply_uV_valid' # supply_uV_valid
    \/ valid_writer' # valid_writer

\* C22 as stated: after attach only the deferred voltage refresh writes
\* supply_uV and supply_uV_valid; a notification writes neither.
C22_AsStated ==
    [][life = "bound" /\ WritesSupplyField => RefreshRuns]_vars

\* C22, amended: after attach supply_uV is written only by the deferred
\* voltage refresh, which sets it to the present voltage of the regulator and
\* leaves supply_uV_valid alone; supply_uV_valid is written only by the
\* notification, which clears it and leaves the refresh queued without
\* touching supply_uV; and a refresh that is queued runs unless the device
\* is detached first.
C22_SupplyFields ==
    /\ [][life = "bound" =>
            /\ supply_uV' # supply_uV => RefreshRuns
            /\ RefreshRuns =>
                  /\ supply_uV' = regulator_uV
                  /\ UNCHANGED <<supply_uV_valid, valid_writer, regulator_uV>>
            /\ valid_writer' # valid_writer =>
                  /\ valid_writer' = "sht15_invalidate_voltage"
                  /\ ~supply_uV_valid'
                  /\ supply_work_pending'
                  /\ supply_uV' = supply_uV
            /\ regulator_uV' # regulator_uV =>
                  supply_work_pending' /\ supply_uV' = supply_uV
         ]_vars
    /\ (life = "bound" /\ supply_work_pending)
          ~> (~supply_work_pending \/ life # "bound")

\* the regulator has notified a change to a voltage it cannot tell, and the
\* refresh has run and copied it
C22_Witness ==
    /\ life = "bound"
    /\ valid_writer = "sht15_invalidate_voltage"
    /\ ~supply_work_pending
    /\ supply_uV = 0
    /\ regulator_uV = 0

\* caller c is in sht15_show_humidity between the return of
\* sht15_update_measurements and the computation of sht15_calc_humid
BeforeCalibration(c) == pc[c] = "show" /\ op[c] = "meas"

\* what sht15_calc_humid computes from: both raw values and the resolution
\* bit of the mirror, which selects the coefficients
CalibrationInputs ==
    <<val_humid, val_temp, val_status % 2>>

\* C23: the humidity a caller returns is computed from a raw humidity, a raw
\* temperature and a status mirror of one successful refresh cycle: from the
\* moment its sht15_update_measurements has returned until it has computed
\* its value, none of the three is replaced, whatever other callers do.
C23_HumidityFromOneCycle ==
    [][\A c \in Callers :
          BeforeCalibration(c) => CalibrationInputs' = CalibrationInputs
      ]_vars

\* C24: enable_irq and disable_irq_nosync are balanced: whenever the mutex
\* is free, so that no measurement is in flight, the interrupt of the data
\* line is disabled with a depth of exactly one, and the enable_irq of the
\* next measurement arms it.
C24_IrqBalanced ==
    read_lock = 0 => irq_depth = 1

\* the battery-low bit of a status byte
BatteryLow(status) == (status \div SHT15_STATUS_LOW_BATTERY) % 2

\* the step stores a status byte that has been read from the device and has
\* passed the validation
StatusReadStored ==
    \E c \in Callers : pc[c] = "us_read" /\ pc'[c] = "unlock"

\* C25: as long as the status mirror stays marked valid, its battery-low bit
\* is the one of the last status byte read successfully from the device: no
\* step but the storing of such a byte changes it, so that a cached
\* battery-low fault is that of the device; neither sht15_store_heater nor a
\* checksum recovery touches the bit.
C25_BatteryBitOfLastRead ==
    [][status_valid /\ status_valid'
          /\ BatteryLow(val_status') # BatteryLow(val_status)
        => StatusReadStored
      ]_vars

\* C26: every call returns, and has released the mutex when it does: the
\* mutex is held by exactly the caller that is inside a conversation, the
\* step that leaves the conversation releases it on every path, a caller
\* inside a conversation gets out of it whatever the device does, and the
\* mutex is free again and again, so that a caller waiting for it gets it
\* under fair scheduling.
C26_CallsReturn ==
    /\ [](\A c \in Callers : InConversation(c) <=> read_lock = c)
    /\ [][\A c \in Callers :
             pc[c] = "unlock" /\ pc'[c] # "unlock" => read_lock' = 0]_vars
    /\ \A c \in Callers : InConversation(c) ~> (pc[c] = "idle")
    /\ []<>(read_lock = 0)

\* both calls have been made and have returned, one of them on the timeout
\* path, which leaves the state and the disable depth behind; the mutex is free
C26_Witness ==
    /\ calls = MaxCalls
    /\ \A c \in Callers : pc[c] = "idle"
    /\ read_lock = 0
    /\ state # SHT15_READING_NOTHING
    /\ irq_depth = 2

\* the bound on the disable depth never stops a caller: the depth stays
\* below it wherever the code is about to call disable_irq_nosync
DepthBoundNeverBinds ==
    \A c \in Callers : pc[c] \in {"m_check", "m_wait"} => irq_depth < MaxIrqDepth

=============================================================================
